---- MODULE Spec2Model ----
\* HR data analysis (src/HR Data Analysis/explore.py): the DataAnalysis class.
\* A DataFrame is a record [columns, rows]; every row carries its row label in
\* the field "index" next to its column values.  Strings that the program
\* builds or orders (the employee keys) are sequences of characters.
EXTENDS Integers, Sequences, FiniteSets, TLC

VARIABLES project_dataframes, pc, result, raised, completed

vars == <<project_dataframes, pc, result, raised, completed>>

\* ---------------------------------------------------------------- bounds
MaxRowsA == 2
MaxRowsB == 1
MaxRowsHR == 3
MaxDepartmentRows == 4
MaxTenureRows == 5
MaxRankedRows == 11
MaxReportRows == 4

\* ---------------------------------------------------------------- values
\* Python's None, for an Optional[DataFrame] slot and for a missing result.
None == [isNone |-> TRUE]

\* A Python float holding x hundredths.
float(x) == [float |-> x]

\* The float that marks a missing value.
NaN == [nan |-> TRUE]

NoException == "NoException"

\* ---------------------------------------------------------------- strings
Digit == <<"0", "1", "2", "3", "4", "5", "6", "7", "8", "9">>

\* Unicode code points of the characters that occur in keys; Python orders
\* str values by code point.
CodePoint == [c \in {"0", "1", "2", "3", "4", "5", "6", "7", "8", "9", "A", "B", "C"} |->
    CASE c = "0" -> 48 [] c = "1" -> 49 [] c = "2" -> 50 [] c = "3" -> 51
      [] c = "4" -> 52 [] c = "5" -> 53 [] c = "6" -> 54 [] c = "7" -> 55
      [] c = "8" -> 56 [] c = "9" -> 57 [] c = "A" -> 65 [] c = "B" -> 66
      [] c = "C" -> 67]

\* str(x) of a non-negative int, as format() renders {x} in an f-string.
RECURSIVE IntToStr(_)
IntToStr(x) ==
    IF x < 10 THEN <<Digit[x + 1]>>
    ELSE IntToStr(x \div 10) \o <<Digit[(x % 10) + 1]>>

\* The prefix of the other office: a copy-and-paste slip.
FStringA_OtherPrefix(x) == <<"B">> \o IntToStr(x)

\* f'A{x}' and f'B{x}'
FStringA(x) == <<"A">> \o IntToStr(x)

FStringB(x) == <<"B">> \o IntToStr(x)

\* s < t on Python str values: lexicographic by code point.
StrLess(s, t) ==
    \E i \in 1..(Len(t)) :
        /\ \A j \in 1..(i - 1) : j <= Len(s) /\ s[j] = t[j]
        /\ \/ i = Len(s) + 1
           \/ i <= Len(s) /\ CodePoint[s[i]] < CodePoint[t[i]]

StrLessEq(s, t) == s = t \/ StrLess(s, t)

\* ---------------------------------------------------------------- frames
IndexOf(df) == [i \in 1..Len(df.rows) |-> df.rows[i].index]

\* The sort left out: rows stay in join order.
sort_index_Omitted(rows) == rows

\* The rows of a frame ordered by row label, rows with equal labels keeping
\* their relative order (DataFrame.sort_index on a frame of fewer than 16 rows).
sort_index(rows) ==
    LET n == Len(rows)
        rank(i) == Cardinality({j \in 1..n : StrLess(rows[j].index, rows[i].index)})
                   + Cardinality({j \in 1..(i - 1) : rows[j].index = rows[i].index}) + 1
    IN [k \in 1..n |-> rows[CHOOSE i \in 1..n : rank(i) = k]]

\* The rows of a frame that carry the label key, in frame order.
RECURSIVE RowsWithIndex(_, _)
RowsWithIndex(rows, key) ==
    IF rows = <<>> THEN <<>>
    ELSE (IF Head(rows).index = key THEN <<Head(rows)>> ELSE <<>>)
         \o RowsWithIndex(Tail(rows), key)

\* ---------------------------------------------------------------- schema
OfficeColumns == {"employee_office_id", "number_project", "average_monthly_hours",
                  "time_spend_company", "Work_accident", "promotion_last_5years",
                  "Department", "salary"}

HRColumns == {"employee_id", "satisfaction_level", "last_evaluation", "left"}

\* ---------------------------------------------------------------- inputs
\* Raw per-office ids and HR ids found in the loaded files.  The HR ids are
\* text; "4" is an id without office prefix.
OfficeIdsA == {4, 3033}

OfficeIdsB == {7064}

HRIds == {<<"A", "4">>, <<"A", "3", "0", "3", "3">>, <<"B", "7", "0", "6", "4">>, <<"4">>}

\* A row of an office file; pd.read_xml labels the rows 0, 1, 2, ...; a label
\* is held in its written form, as every row label of the model is.
OfficeRow(i, id) ==
    [index |-> IntToStr(i - 1), employee_office_id |-> id, number_project |-> 3,
     average_monthly_hours |-> 150, time_spend_company |-> 3, Work_accident |-> 0,
     promotion_last_5years |-> 0, Department |-> "sales", salary |-> "low"]

\* A row of the HR file; scores are in hundredths and differ from row to row.
HRRow(i, id) ==
    [index |-> IntToStr(i - 1), employee_id |-> id, satisfaction_level |-> 30 + i,
     last_evaluation |-> 50 + i, left |-> 0]

\* The frames pd.read_xml can return for an office file and for the HR file.
OfficeFrames(ids, maxRows) ==
    {[columns |-> OfficeColumns, rows |-> [i \in 1..Len(f) |-> OfficeRow(i, f[i])]] :
        f \in UNION {[1..n -> ids] : n \in 0..maxRows}}

HRFrames ==
    {[columns |-> HRColumns, rows |-> [i \in 1..Len(f) |-> HRRow(i, f[i])]] :
        f \in UNION {[1..n -> HRIds] : n \in 0..MaxRowsHR}}

\* An HR file whose records carry no employee_id element.
HRFrameWithoutId ==
    [columns |-> HRColumns \ {"employee_id"},
     rows |-> <<[index |-> IntToStr(0), satisfaction_level |-> 31,
                 last_evaluation |-> 51, left |-> 0]>>]

\* ---------------------------------------------------------------- pipeline
\* The state in which prepare_project_structure reaches reindex_dataframes:
\* __init__ has set the four slots and create_dataframes has loaded three.
Init ==
    /\ project_dataframes \in
         {[a_office_data |-> a, b_office_data |-> b, hr_data |-> h, unified_dataset |-> None] :
            a \in OfficeFrames(OfficeIdsA, MaxRowsA),
            b \in OfficeFrames(OfficeIdsB, MaxRowsB),
            h \in HRFrames \cup {HRFrameWithoutId}}
    /\ pc = "reindex_dataframes"
    /\ result = None
    /\ raised = NoException
    /\ completed = <<>>

\* df.index = [f'A{x}' for x in df['employee_office_id']]
ReindexOfficeA(df) ==
    [df EXCEPT !.rows = [i \in 1..Len(df.rows) |->
        [df.rows[i] EXCEPT !.index = FStringA(df.rows[i].employee_office_id)]]]

ReindexOfficeB(df) ==
    [df EXCEPT !.rows = [i \in 1..Len(df.rows) |->
        [df.rows[i] EXCEPT !.index = FStringB(df.rows[i].employee_office_id)]]]

\* df.set_index('employee_id', inplace=True): the column becomes the row
\* label and leaves the columns; verify_integrity is left at its default False.
SetIndexEmployeeId(df) ==
    [columns |-> df.columns \ {"employee_id"},
     rows |-> [i \in 1..Len(df.rows) |->
        [f \in (DOMAIN df.rows[i]) \ {"employee_id"} |->
            IF f = "index" THEN df.rows[i].employee_id ELSE df.rows[i][f]]]]

reindex_dataframes ==
    /\ pc = "reindex_dataframes"
    /\ LET a == project_dataframes.a_office_data
           b == project_dataframes.b_office_data
           h == project_dataframes.hr_data
       IN IF "employee_office_id" \notin a.columns
          THEN /\ raised' = "KeyError"
               /\ pc' = "raised"
               /\ UNCHANGED project_dataframes
          ELSE IF "employee_office_id" \notin b.columns
          THEN /\ raised' = "KeyError"
               /\ pc' = "raised"
               /\ project_dataframes' =
                    [project_dataframes EXCEPT !.a_office_data = ReindexOfficeA(a)]
          ELSE IF "employee_id" \notin h.columns
          THEN /\ raised' = "KeyError"
               /\ pc' = "raised"
               /\ project_dataframes' =
                    [project_dataframes EXCEPT !.a_office_data = ReindexOfficeA(a),
                                               !.b_office_data = ReindexOfficeB(b)]
          ELSE /\ raised' = NoException
               /\ pc' = "generate_unified_dataset"
               /\ project_dataframes' =
                    [project_dataframes EXCEPT !.a_office_data = ReindexOfficeA(a),
                                               !.b_office_data = ReindexOfficeB(b),
                                               !.hr_data = SetIndexEmployeeId(h)]
    /\ UNCHANGED <<result, completed>>

\* pd.concat([a, b], ignore_index=False): the rows of a then the rows of b,
\* each keeping its row label; a column only one frame has is NaN in the
\* rows of the other.
Concat(a, b) ==
    LET cols == a.columns \cup b.columns
        rows == a.rows \o b.rows
    IN [columns |-> cols,
        rows |-> [i \in 1..Len(rows) |->
           [f \in (DOMAIN rows[i]) \cup cols |->
               IF f \in DOMAIN rows[i] THEN rows[i][f] ELSE NaN]]]

\* The rows of right whose label equals that of the left row, each joined to it.
RECURSIVE MatchesOf(_, _)
MatchesOf(l, rightRows) ==
    IF rightRows = <<>> THEN <<>>
    ELSE (IF Head(rightRows).index = l.index THEN <<l @@ Head(rightRows)>> ELSE <<>>)
         \o MatchesOf(l, Tail(rightRows))

RECURSIVE InnerJoinRows(_, _)
InnerJoinRows(leftRows, rightRows) ==
    IF leftRows = <<>> THEN <<>>
    ELSE MatchesOf(Head(leftRows), rightRows) \o InnerJoinRows(Tail(leftRows), rightRows)

\* left.merge(right, left_index=True, right_index=True, how='inner')
Merge(left, right) ==
    [columns |-> left.columns \cup right.columns,
     rows |-> InnerJoinRows(left.rows, right.rows)]

\* df.drop(columns=[col for col in columns_to_drop if col in df.columns])
DropColumns(df, columns_to_drop) ==
    [columns |-> df.columns \ columns_to_drop,
     rows |-> [i \in 1..Len(df.rows) |->
        [f \in (DOMAIN df.rows[i]) \ columns_to_drop |-> df.rows[i][f]]]]

UnifiedDataset(a, b, h) ==
    LET merged == Merge(Concat(a, b), h)
        dropped == DropColumns(merged, {"employee_office_id", "employee_id"})
    IN [dropped EXCEPT !.rows = sort_index(dropped.rows)]

\* generate_unified_dataset and the assignment of its value to the
\* unified_dataset slot in prepare_project_structure.
generate_unified_dataset ==
    /\ pc = "generate_unified_dataset"
    /\ project_dataframes' =
         [project_dataframes EXCEPT !.unified_dataset =
            UnifiedDataset(project_dataframes.a_office_data,
                           project_dataframes.b_office_data,
                           project_dataframes.hr_data)]
    /\ pc' = "prepared"
    /\ UNCHANGED <<result, raised, completed>>

\* ---------------------------------------------------------------- lookups
employee_ids == <<<<"A", "4">>, <<"B", "7", "0", "6", "4">>, <<"A", "3", "0", "3", "3">>>>

\* One pass of the loop body for emp_id: the entry appended to result, or the
\* exception.  dataset.loc[emp_id, cols] is a Series when the label occurs
\* once and a DataFrame when it occurs more often; float() of a column of
\* that DataFrame raises TypeError.
LookupEntry(dataset, emp_id) ==
    LET hits == RowsWithIndex(dataset.rows, emp_id)
    IN IF hits = <<>>
       THEN [raised |-> NoException, entry |-> <<None, None>>]
       ELSE IF ~({"last_evaluation", "satisfaction_level"} \subseteq dataset.columns)
       THEN [raised |-> "KeyError", entry |-> <<>>]
       ELSE IF Len(hits) > 1
       THEN [raised |-> "TypeError", entry |-> <<>>]
       ELSE [raised |-> NoException,
             entry |-> <<float(hits[1].last_evaluation), float(hits[1].satisfaction_level)>>]

\* The loop over employee_ids from position i on, result so far in acc.
RECURSIVE LookupLoop(_, _, _)
LookupLoop(dataset, i, acc) ==
    IF i > Len(employee_ids) THEN [raised |-> NoException, value |-> acc]
    ELSE LET e == LookupEntry(dataset, employee_ids[i])
         IN IF e.raised # NoException
            THEN [raised |-> e.raised, value |-> None]
            ELSE LookupLoop(dataset, i + 1, Append(acc, e.entry))

SpecificEmployeesData(dataset) == LookupLoop(dataset, 1, <<>>)

\* ---------------------------------------------------------------- numbers
\* Scores are held in hundredths (51 is 0.51), hours, tenures and counts in
\* units.  An aggregate is a Python float written float(h) with h its value
\* in hundredths after .round(2), or NaN for an empty pivot cell.
\* p/q rounded to the nearest integer, a tie going to the even one (numpy rint).
RoundHalfEven(p, q) ==
    LET f == p \div q
        r == p % q
    IN IF 2 * r < q THEN f
       ELSE IF 2 * r > q THEN f + 1
       ELSE IF f % 2 = 0 THEN f ELSE f + 1

\* .round(2) of the value num/den, in hundredths.
Round2(num, den) == RoundHalfEven(100 * num, den)

\* a < b and a > b on floats: False when either side is NaN.
FloatLess(a, b) == a # NaN /\ b # NaN /\ a.float < b.float

FloatGreater(a, b) == a # NaN /\ b # NaN /\ a.float > b.float

RECURSIVE Sum(_)
Sum(vals) == IF vals = <<>> THEN 0 ELSE Head(vals) + Sum(Tail(vals))

SortInts(vals) ==
    LET n == Len(vals)
        rank(i) == Cardinality({j \in 1..n : vals[j] < vals[i]})
                   + Cardinality({j \in 1..(i - 1) : vals[j] = vals[i]}) + 1
    IN [k \in 1..n |-> vals[CHOOSE i \in 1..n : rank(i) = k]]

\* aggfunc 'median', 'mean', 'min', 'max' over the values of a cell, rounded;
\* scale is 1 for values in units and 100 for values in hundredths.
Median(vals, scale) ==
    IF vals = <<>> THEN NaN
    ELSE LET srt == SortInts(vals)
             n == Len(vals)
         IN IF n % 2 = 1 THEN float(Round2(srt[(n + 1) \div 2], scale))
            ELSE float(Round2(srt[n \div 2] + srt[(n \div 2) + 1], 2 * scale))

Mean(vals, scale) ==
    IF vals = <<>> THEN NaN ELSE float(Round2(Sum(vals), Len(vals) * scale))

Min(vals, scale) ==
    IF vals = <<>> THEN NaN ELSE float(Round2(SortInts(vals)[1], scale))

Max(vals, scale) ==
    IF vals = <<>> THEN NaN ELSE float(Round2(SortInts(vals)[Len(vals)], scale))

\* The values of a column, row by row.
Column(rows, col) == [i \in 1..Len(rows) |-> rows[i][col]]

\* ---------------------------------------------------------------- validator
\* The list with its last entry forgotten.
required_columns_WithoutLeft ==
    {"number_project", "average_monthly_hours", "time_spend_company", "Work_accident",
     "promotion_last_5years", "Department", "salary", "satisfaction_level", "last_evaluation"}

required_columns == {"number_project", "average_monthly_hours", "time_spend_company",
                     "Work_accident", "promotion_last_5years", "Department", "salary",
                     "satisfaction_level", "last_evaluation", "left"}

missing_columns(dataset) == {col \in required_columns : col \notin dataset.columns}

validate_dataset(dataset) == missing_columns(dataset) = {}

\* ---------------------------------------------------------------- queries
\* Each query is a function of the dataset to [raised, value].
Returns(v) == [raised |-> NoException, value |-> v]

Raises(e) == [raised |-> e, value |-> None]

count_bigger_5(series) == Len(SelectSeq(series, LAMBDA x : x > 5))

\* groupby(['left']).agg(...).round(2).to_dict(); the 'std' entry is left out.
EmployeesMetrics(dataset) ==
    IF ~validate_dataset(dataset) THEN Raises("ValueError: Dataset validation failed")
    ELSE LET groups == {dataset.rows[i].left : i \in 1..Len(dataset.rows)}
             col(c, g) == Column(SelectSeq(dataset.rows, LAMBDA r : r.left = g), c)
         IN Returns([g \in groups |->
              [number_project_median |-> Median(col("number_project", g), 1),
               number_project_count_bigger_5 |-> count_bigger_5(col("number_project", g)),
               time_spend_company_mean |-> Mean(col("time_spend_company", g), 1),
               time_spend_company_median |-> Median(col("time_spend_company", g), 1),
               Work_accident_mean |-> Mean(col("Work_accident", g), 1),
               last_evaluation_mean |-> Mean(col("last_evaluation", g), 100)]])

\* pivot_table(index='Department', columns=['left', 'salary'],
\*             values='average_monthly_hours', aggfunc='median').round(2)
\* A column exists for every (left, salary) pair some row has, a row for
\* every Department some row has.
DepartmentPivotColumns(dataset) ==
    {<<dataset.rows[i].left, dataset.rows[i].salary>> : i \in 1..Len(dataset.rows)}

DepartmentPivotIndex(dataset) ==
    {dataset.rows[i].Department : i \in 1..Len(dataset.rows)}

DepartmentPivotCell(dataset, department, column) ==
    Median(Column(SelectSeq(dataset.rows, LAMBDA r : /\ r.Department = department
                                  /\ r.left = column[1]
                                  /\ r.salary = column[2]), "average_monthly_hours"), 1)

\* The first comparison written with <= in place of <.
condition1_NotStrict(dataset, department) ==
    LET high == DepartmentPivotCell(dataset, department, <<0, "high">>)
        medium == DepartmentPivotCell(dataset, department, <<0, "medium">>)
    IN high # NaN /\ medium # NaN /\ high.float <= medium.float

\* The filter of median_salaries_by_department on one pivot row.
condition1(dataset, department) ==
    FloatLess(DepartmentPivotCell(dataset, department, <<0, "high">>),
              DepartmentPivotCell(dataset, department, <<0, "medium">>))

condition2(dataset, department) ==
    FloatLess(DepartmentPivotCell(dataset, department, <<1, "low">>),
              DepartmentPivotCell(dataset, department, <<1, "high">>))

\* result[(0, 'high')] and the three other selections raise KeyError when
\* the pivot has no such column.
MedianSalariesByDepartment(dataset) ==
    IF ~({"Department", "left", "salary", "average_monthly_hours"} \subseteq dataset.columns)
    THEN Raises("KeyError")
    ELSE IF ~({<<0, "high">>, <<0, "medium">>, <<1, "low">>, <<1, "high">>}
              \subseteq DepartmentPivotColumns(dataset))
    THEN Raises("KeyError")
    ELSE LET kept == {d \in DepartmentPivotIndex(dataset) :
                        condition1(dataset, d) \/ condition2(dataset, d)}
         IN Returns([c \in DepartmentPivotColumns(dataset) |->
                       [d \in kept |-> DepartmentPivotCell(dataset, d, c)]])

\* pivot_table(index='time_spend_company', columns='promotion_last_5years',
\*             values=['satisfaction_level', 'last_evaluation'],
\*             aggfunc=['min', 'max', 'mean']).round(2)
TenurePivotIndex(dataset) ==
    {dataset.rows[i].time_spend_company : i \in 1..Len(dataset.rows)}

TenurePivotFlags(dataset) ==
    {dataset.rows[i].promotion_last_5years : i \in 1..Len(dataset.rows)}

TenurePivotColumns(dataset) ==
    {<<agg, val, flag>> : agg \in {"min", "max", "mean"},
                          val \in {"satisfaction_level", "last_evaluation"},
                          flag \in TenurePivotFlags(dataset)}

TenurePivotCell(dataset, tenure, column) ==
    LET vals == Column(SelectSeq(dataset.rows, LAMBDA r : /\ r.time_spend_company = tenure
                                       /\ r.promotion_last_5years = column[3]), column[2])
    IN IF column[1] = "min" THEN Min(vals, 100)
       ELSE IF column[1] = "max" THEN Max(vals, 100)
       ELSE Mean(vals, 100)

\* The comparison made on the promoted side first.
condition_Swapped(dataset, tenure) ==
    FloatGreater(TenurePivotCell(dataset, tenure, <<"mean", "last_evaluation", 1>>),
                 TenurePivotCell(dataset, tenure, <<"mean", "last_evaluation", 0>>))

\* The filter of employees_time_spend_company on one pivot row.
condition(dataset, tenure) ==
    FloatGreater(TenurePivotCell(dataset, tenure, <<"mean", "last_evaluation", 0>>),
                 TenurePivotCell(dataset, tenure, <<"mean", "last_evaluation", 1>>))

EmployeesTimeSpendCompany(dataset) ==
    IF ~({"time_spend_company", "promotion_last_5years", "satisfaction_level",
          "last_evaluation"} \subseteq dataset.columns)
    THEN Raises("KeyError")
    ELSE IF ~({0, 1} \subseteq TenurePivotFlags(dataset))
    THEN Raises("KeyError")
    ELSE LET kept == {t \in TenurePivotIndex(dataset) : condition(dataset, t)}
         IN Returns([c \in TenurePivotColumns(dataset) |->
                       [t \in kept |-> TenurePivotCell(dataset, t, c)]])

\* The positions of rows taken in one pass from the largest value down, a
\* later row placed before an earlier one of the same value (keep='last').
nlargest_KeepLast(rows, n, col) ==
    LET len == Len(rows)
        rank(i) == Cardinality({j \in 1..len : rows[j][col] > rows[i][col]})
                   + Cardinality({j \in (i + 1)..len : rows[j][col] = rows[i][col]}) + 1
        k == IF n < len THEN n ELSE len
    IN [m \in 1..k |-> rows[CHOOSE i \in 1..len : rank(i) = m]]

\* dataset.nlargest(n, col): the n rows with the largest values of col in
\* descending order, rows of equal value in table order (keep='first').
nlargest(rows, n, col) ==
    LET len == Len(rows)
        rank(i) == Cardinality({j \in 1..len : rows[j][col] > rows[i][col]})
                   + Cardinality({j \in 1..(i - 1) : rows[j][col] = rows[i][col]}) + 1
        k == IF n < len THEN n ELSE len
    IN [m \in 1..k |-> rows[CHOOSE i \in 1..len : rank(i) = m]]

TopN == 10

Top10DepartmentsByHours(dataset) ==
    IF ~({"average_monthly_hours", "Department"} \subseteq dataset.columns)
    THEN Raises("KeyError")
    ELSE LET top_10 == nlargest(dataset.rows, TopN, "average_monthly_hours")
         IN Returns([m \in 1..Len(top_10) |-> top_10[m].Department])

TotalProjectsItLowSalary(dataset) ==
    IF ~({"Department", "salary", "number_project"} \subseteq dataset.columns)
    THEN Raises("KeyError")
    ELSE LET it_low == SelectSeq(dataset.rows,
                                 LAMBDA r : r.Department = "IT" /\ r.salary = "low")
         IN Returns(Sum(Column(it_low, "number_project")))

\* ---------------------------------------------------------------- calls
\* A call of one query on the unified dataset of the prepared object, as
\* main makes them: its value goes to result, its exception to raised.
Call(name, r) ==
    /\ pc = "prepared"
    /\ result' = r.value
    /\ raised' = r.raised
    /\ completed' = IF r.raised = NoException THEN <<name>> ELSE <<>>
    /\ pc' = "returned"
    /\ UNCHANGED project_dataframes

median_salaries_by_department ==
    Call("median_salaries_by_department",
         MedianSalariesByDepartment(project_dataframes.unified_dataset))

employees_time_spend_company ==
    Call("employees_time_spend_company",
         EmployeesTimeSpendCompany(project_dataframes.unified_dataset))

top_10_departments_by_hours ==
    Call("top_10_departments_by_hours",
         Top10DepartmentsByHours(project_dataframes.unified_dataset))

specific_employees_data ==
    Call("specific_employees_data",
         SpecificEmployeesData(project_dataframes.unified_dataset))

\* The queries of the report in the order the dict display evaluates them.
ReportQueries(dataset) ==
    <<[name |-> "employees_metrics", r |-> EmployeesMetrics(dataset)],
      [name |-> "median_salaries_by_department", r |-> MedianSalariesByDepartment(dataset)],
      [name |-> "employees_time_spend_company", r |-> EmployeesTimeSpendCompany(dataset)],
      [name |-> "top_10_departments_by_hours", r |-> Top10DepartmentsByHours(dataset)],
      [name |-> "total_projects_it_low_salary", r |-> TotalProjectsItLowSalary(dataset)],
      [name |-> "specific_employees_data", r |-> SpecificEmployeesData(dataset)]>>

\* A report handed back although a query raised: the failed entry left None.
ComprehensiveReport_Partial(dataset) ==
    LET q == ReportQueries(dataset)
    IN [raised |-> NoException,
        value |-> [employee_metrics |-> q[1].r.value,
                   department_analysis |-> q[2].r.value,
                   time_analysis |-> q[3].r.value],
        completed |-> [i \in 1..Len(q) |-> q[i].name]]

\* The body of generate_comprehensive_report after the None test: the first
\* query that raises ends the call with its exception.
ComprehensiveReport(dataset) ==
    LET q == ReportQueries(dataset)
        failing == {i \in 1..Len(q) : q[i].r.raised # NoException}
        first == IF failing = {} THEN Len(q) + 1
                 ELSE CHOOSE i \in failing : \A j \in failing : i <= j
    IN [raised |-> IF failing = {} THEN NoException ELSE q[first].r.raised,
        value |-> IF failing # {} THEN None
                  ELSE [dataset_info |->
                          [shape |-> <<Len(dataset.rows), Cardinality(dataset.columns)>>,
                           columns |-> dataset.columns,
                           index_sample |-> SubSeq(IndexOf(dataset), 1,
                              IF Len(dataset.rows) < 10 THEN Len(dataset.rows) ELSE 10)],
                        employee_metrics |-> q[1].r.value,
                        department_analysis |-> q[2].r.value,
                        time_analysis |-> q[3].r.value,
                        insights |-> [top_departments |-> q[4].r.value,
                                      it_projects_total |-> q[5].r.value,
                                      specific_employees |-> q[6].r.value]],
        completed |-> [i \in 1..(first - 1) |-> q[i].name]]

\* generate_comprehensive_report, called on the object once
\* prepare_project_structure has ended, normally or with an exception.
generate_comprehensive_report ==
    /\ pc \in {"prepared", "raised"}
    /\ LET dataset == project_dataframes.unified_dataset
       IN IF dataset = None
          THEN /\ raised' = "ValueError: Unified dataset not available"
               /\ result' = None
               /\ completed' = <<>>
          ELSE LET r == ComprehensiveReport(dataset)
               IN /\ raised' = r.raised
                  /\ result' = r.value
                  /\ completed' = r.completed
    /\ pc' = "returned"
    /\ UNCHANGED project_dataframes

Pipeline == reindex_dataframes \/ generate_unified_dataset

Next == Pipeline \/ specific_employees_data

Spec == Init /\ [][Next]_vars

\* ---------------------------------------------------------------- staff files
\* Files that describe the same staff: employee i (a record of the ten
\* required columns) is row i of office A under the id ids[i] and row i of
\* the HR file under the id "A" followed by that number; office B is empty.
StaffFrames(emps, ids) ==
    [a_office_data |->
        [columns |-> OfficeColumns,
         rows |-> [i \in 1..Len(emps) |->
            [index |-> IntToStr(i - 1), employee_office_id |-> ids[i],
             number_project |-> emps[i].number_project,
             average_monthly_hours |-> emps[i].average_monthly_hours,
             time_spend_company |-> emps[i].time_spend_company,
             Work_accident |-> emps[i].Work_accident,
             promotion_last_5years |-> emps[i].promotion_last_5years,
             Department |-> emps[i].Department,
             salary |-> emps[i].salary]]],
     b_office_data |-> [columns |-> OfficeColumns, rows |-> <<>>],
     hr_data |->
        [columns |-> HRColumns,
         rows |-> [i \in 1..Len(emps) |->
            [index |-> IntToStr(i - 1), employee_id |-> <<"A">> \o IntToStr(ids[i]),
             satisfaction_level |-> emps[i].satisfaction_level,
             last_evaluation |-> emps[i].last_evaluation,
             left |-> emps[i].left]]],
     unified_dataset |-> None]

\* The same files with one element absent from every record.
WithoutColumn(frames, col) ==
    [frames EXCEPT !.a_office_data = DropColumns(frames.a_office_data, {col}),
                   !.b_office_data = DropColumns(frames.b_office_data, {col}),
                   !.hr_data = DropColumns(frames.hr_data, {col})]

Employee(department, left, salary, hours, tenure, promoted, evaluation) ==
    [number_project |-> IF left = 1 THEN 6 ELSE 3,
     average_monthly_hours |-> hours, time_spend_company |-> tenure,
     Work_accident |-> 0, promotion_last_5years |-> promoted,
     Department |-> department, salary |-> salary,
     satisfaction_level |-> evaluation - 10, last_evaluation |-> evaluation,
     left |-> left]

\* The sequences over 0..(k - 1) of length n that never decrease: one
\* ordering of every multiset of options.
RECURSIVE NonDecreasing(_, _)
NonDecreasing(n, k) ==
    IF n = 0 THEN {<<>>}
    ELSE {Append(p[1], p[2]) :
            p \in {q \in NonDecreasing(n - 1, k) \X (0..(k - 1)) :
                     q[1] = <<>> \/ q[1][Len(q[1])] <= q[2]}}

StartOfPreparation(frames) ==
    /\ project_dataframes \in frames
    /\ pc = "reindex_dataframes"
    /\ result = None
    /\ raised = NoException
    /\ completed = <<>>

Positions(n) == [i \in 1..n |-> i]

\* Staff for the department pivot: two departments, the four (left, salary)
\* pairs the filter reads, two values of hours.
DepartmentOption(o) ==
    LET pairs == <<<<0, "high">>, <<0, "medium">>, <<1, "low">>, <<1, "high">>>>
        pair == pairs[((o \div 2) % 4) + 1]
    IN Employee(IF o \div 8 = 0 THEN "IT" ELSE "sales", pair[1], pair[2],
                150 + 10 * (o % 2), 3, 0, 50)

InitDepartments ==
    StartOfPreparation(
        {StaffFrames([i \in 1..Len(o) |-> DepartmentOption(o[i])], Positions(Len(o))) :
            o \in UNION {NonDecreasing(n, 16) : n \in 0..MaxDepartmentRows}})

NextDepartments == Pipeline \/ median_salaries_by_department

SpecDepartments == InitDepartments /\ [][NextDepartments]_vars

\* Staff for the tenure pivot: two tenures, promoted or not, three scores.
TenureOption(o) ==
    Employee("IT", 0, "low", 150, 3 + (o \div 6), (o \div 3) % 2,
             <<50, 51, 80>>[(o % 3) + 1])

InitTenure ==
    StartOfPreparation(
        {StaffFrames([i \in 1..Len(o) |-> TenureOption(o[i])], Positions(Len(o))) :
            o \in UNION {NonDecreasing(n, 12) : n \in 0..MaxTenureRows}})

NextTenure == Pipeline \/ employees_time_spend_company

SpecTenure == InitTenure /\ [][NextTenure]_vars

\* Staff for the ranking: any sequence of two values of hours, the
\* departments following each other in a fixed round.
DepartmentNames == <<"sales", "accounting", "hr", "technical", "support",
                     "management", "IT", "product_mng", "marketing", "RandD">>

InitRanked ==
    StartOfPreparation(
        {StaffFrames([i \in 1..Len(h) |->
                        Employee(DepartmentNames[((i - 1) % 10) + 1], 0, "low", h[i], 3, 0, 50)],
                     Positions(Len(h))) :
            h \in UNION {[1..n -> {150, 160}] : n \in 0..MaxRankedRows}})

NextRanked == Pipeline \/ top_10_departments_by_hours

SpecRanked == InitRanked /\ [][NextRanked]_vars

\* Staff for the report: six kinds of employee; the files are complete, or
\* lack one required column, or enter the first employee under the id 4,
\* or the HR file has no employee_id.
ReportProfiles ==
    <<Employee("IT", 0, "high", 150, 3, 0, 80),
      Employee("IT", 0, "medium", 160, 3, 1, 50),
      Employee("IT", 1, "low", 150, 4, 0, 51),
      Employee("sales", 1, "high", 160, 4, 0, 50),
      Employee("sales", 0, "low", 150, 3, 0, 50),
      Employee("sales", 0, "medium", 160, 4, 0, 80)>>

ReportStaff ==
    {[i \in 1..Len(o) |-> ReportProfiles[o[i] + 1]] :
        o \in UNION {NonDecreasing(n, 6) : n \in 0..MaxReportRows}}

InitReport ==
    StartOfPreparation(
        {StaffFrames(e, Positions(Len(e))) : e \in ReportStaff}
        \cup {StaffFrames(e, [i \in 1..Len(e) |-> IF i = 1 THEN 4 ELSE i]) : e \in ReportStaff}
        \cup {WithoutColumn(StaffFrames(e, Positions(Len(e))), col) :
                e \in ReportStaff,
                col \in (OfficeColumns \cup HRColumns) \ {"employee_office_id"}})

NextReport == Pipeline \/ generate_comprehensive_report

SpecReport == InitReport /\ [][NextReport]_vars

\* ================================================================ claims
Unified == project_dataframes.unified_dataset

IndexSet(df) == {df.rows[i].index : i \in 1..Len(df.rows)}

HasRepeatedLabel(df) ==
    \E i, j \in 1..Len(df.rows) : i # j /\ df.rows[i].index = df.rows[j].index

HasRepeatedOfficeId(df) ==
    \E i, j \in 1..Len(df.rows) :
        i # j /\ df.rows[i].employee_office_id = df.rows[j].employee_office_id

\* The number a string of decimal digits denotes.
RECURSIVE DecimalValue(_)
DecimalValue(str) ==
    IF str = <<>> THEN 0
    ELSE 10 * DecimalValue(SubSeq(str, 1, Len(str) - 1))
         + (CHOOSE d \in 0..9 : Digit[d + 1] = str[Len(str)])

IsDecimalFormOf(str, x) ==
    /\ Len(str) >= 1
    /\ \A i \in 1..Len(str) : \E d \in 0..9 : Digit[d + 1] = str[i]
    /\ Len(str) > 1 => str[1] # "0"
    /\ DecimalValue(str) = x

\* C1: the unified table has exactly one row per key that occurs both in the
\* concatenated re-keyed office tables and in the hr table: its row count is
\* the size of that intersection and no key labels two rows.
C1_OneRowPerSharedKey ==
    Unified # None =>
        /\ Len(Unified.rows) =
             Cardinality((IndexSet(project_dataframes.a_office_data)
                          \cup IndexSet(project_dataframes.b_office_data))
                         \cap IndexSet(project_dataframes.hr_data))
        /\ ~HasRepeatedLabel(Unified)

\* C2: when an office table repeats an employee_office_id or hr repeats an
\* employee_id, reindex_dataframes raises an integrity error and no unified
\* table is produced.
C2_RepeatedIdsRejected ==
    (/\ pc # "reindex_dataframes"
     /\ \/ HasRepeatedOfficeId(project_dataframes.a_office_data)
        \/ HasRepeatedOfficeId(project_dataframes.b_office_data)
        \/ /\ "employee_id" \notin project_dataframes.hr_data.columns
           /\ raised # "KeyError"
           /\ HasRepeatedLabel(project_dataframes.hr_data))
    => (raised = "IntegrityError" /\ Unified = None)

\* The office frame new is the frame old re-keyed with the given prefix:
\* as many rows, row i holding the column values of the old row i, labelled
\* with the prefix followed by the decimal form of its employee_office_id,
\* and no label used twice.
ReKeyed(old, new, prefix) ==
    /\ Len(new.rows) = Len(old.rows)
    /\ new.columns = old.columns
    /\ \A i \in 1..Len(old.rows) :
        /\ \A c \in old.columns : new.rows[i][c] = old.rows[i][c]
        /\ Len(new.rows[i].index) >= 2
        /\ Head(new.rows[i].index) = prefix
        /\ IsDecimalFormOf(Tail(new.rows[i].index), old.rows[i].employee_office_id)
    /\ ~HasRepeatedLabel(new)

\* C3: reindex_dataframes turns an office table of N rows with pairwise
\* distinct employee_office_id into the same N rows in the same order, row i
\* keyed "A" (office_A) or "B" (office_B) followed by the string form of its
\* id, the N keys pairwise distinct.
C3_ReindexPrefixesIds ==
    [][pc = "reindex_dataframes" =>
        /\ ~HasRepeatedOfficeId(project_dataframes.a_office_data) =>
             ReKeyed(project_dataframes.a_office_data,
                     project_dataframes.a_office_data', "A")
        /\ ~HasRepeatedOfficeId(project_dataframes.b_office_data) =>
             ReKeyed(project_dataframes.b_office_data,
                     project_dataframes.b_office_data', "B")]_vars

C3_Witness ==
    /\ pc = "generate_unified_dataset"
    /\ IndexOf(project_dataframes.a_office_data)
         = <<<<"A", "4">>, <<"A", "3", "0", "3", "3">>>>
    /\ IndexOf(project_dataframes.b_office_data) = <<<<"B", "7", "0", "6", "4">>>>

\* C4: every key of the unified table starts with "A" or "B" and the rows
\* are in ascending lexical order of key, whatever the order of the inputs.
C4_TaggedAndSorted ==
    Unified # None =>
        /\ \A i \in 1..Len(Unified.rows) : Head(Unified.rows[i].index) \in {"A", "B"}
        /\ \A i, j \in 1..Len(Unified.rows) :
             i < j => StrLessEq(Unified.rows[i].index, Unified.rows[j].index)

C4_Witness ==
    /\ pc = "prepared"
    /\ IndexOf(project_dataframes.a_office_data)
         = <<<<"A", "4">>, <<"A", "3", "0", "3", "3">>>>
    /\ IndexOf(Unified) = <<<<"A", "3", "0", "3", "3">>, <<"A", "4">>>>

\* C10: specific_employees_data never raises and returns three entries in
\* the order A4, B7064, A3033: [last_evaluation, satisfaction_level] of the
\* employee for a key in the table, [None, None] for a key not in it.
C10_LookupTotal ==
    (pc = "returned" /\ completed \in {<<>>, <<"specific_employees_data">>}) =>
        /\ raised = NoException
        /\ Len(result) = 3
        /\ \A k \in 1..3 :
             IF employee_ids[k] \in IndexSet(Unified)
             THEN \E i \in 1..Len(Unified.rows) :
                    /\ Unified.rows[i].index = employee_ids[k]
                    /\ result[k] = <<float(Unified.rows[i].last_evaluation),
                                     float(Unified.rows[i].satisfaction_level)>>
             ELSE result[k] = <<None, None>>

\* The exceptions of the report queries whose call on the unified dataset raises.
QueryExceptions ==
    {e \in {EmployeesMetrics(Unified).raised, MedianSalariesByDepartment(Unified).raised,
            EmployeesTimeSpendCompany(Unified).raised, Top10DepartmentsByHours(Unified).raised,
            TotalProjectsItLowSalary(Unified).raised, SpecificEmployeesData(Unified).raised} :
        e # NoException}

\* C5: generate_comprehensive_report hands back a report only if the unified
\* table is built and every query succeeds; on a table not built it raises
\* the prerequisite error; if a query raises, that exception comes out and
\* nothing is returned, not even a partly filled report.
C5_ReportAllOrNothing ==
    pc = "returned" =>
        IF Unified = None
        THEN raised = "ValueError: Unified dataset not available" /\ result = None
        ELSE IF QueryExceptions # {}
        THEN /\ raised \in QueryExceptions
             /\ result = None
        ELSE /\ raised = NoException
             /\ result # None
             /\ result.employee_metrics = EmployeesMetrics(Unified).value
             /\ result.department_analysis = MedianSalariesByDepartment(Unified).value
             /\ result.time_analysis = EmployeesTimeSpendCompany(Unified).value
             /\ result.insights.top_departments = Top10DepartmentsByHours(Unified).value
             /\ result.insights.it_projects_total = TotalProjectsItLowSalary(Unified).value
             /\ result.insights.specific_employees = SpecificEmployeesData(Unified).value

C5_Witness ==
    /\ pc = "returned"
    /\ Unified # None
    /\ Len(Unified.rows) = 4
    /\ raised = "KeyError"
    /\ completed = <<"employees_metrics", "median_salaries_by_department">>
    /\ result = None

\* The ten columns every query of the engine may read.
TenColumns == {"number_project", "average_monthly_hours", "time_spend_company",
               "Work_accident", "promotion_last_5years", "Department", "salary",
               "satisfaction_level", "last_evaluation", "left"}

\* C6: validate_dataset is false exactly when one of the ten required
\* columns is missing from the table, and the report on such a table ends
\* in the validation error before any query has produced a result.
C6_SchemaGate ==
    Unified # None =>
        /\ validate_dataset(Unified) <=> (TenColumns \subseteq Unified.columns)
        /\ (pc = "returned" /\ ~(TenColumns \subseteq Unified.columns)) =>
             /\ raised = "ValueError: Dataset validation failed"
             /\ completed = <<>>
             /\ result = None

C6_Witness ==
    /\ pc = "returned"
    /\ Unified # None
    /\ Len(Unified.rows) = 4
    /\ TenColumns \ Unified.columns = {"left"}
    /\ raised = "ValueError: Dataset validation failed"

\* The average_monthly_hours of the rows of one department, attrition flag
\* and salary tier.
HoursOf(department, left, salary) ==
    Column(SelectSeq(Unified.rows, LAMBDA r : /\ r.Department = department
                                              /\ r.left = left
                                              /\ r.salary = salary),
           "average_monthly_hours")

\* Twice the median of a non-empty list: its lower plus its upper median.
TwiceMedian(vals) ==
    LET n == Len(vals)
        atMost(v) == Cardinality({j \in 1..n : vals[j] <= v})
        atLeast(v) == Cardinality({j \in 1..n : vals[j] >= v})
        lower == CHOOSE v \in {vals[j] : j \in 1..n} :
                    /\ 2 * atMost(v) >= n
                    /\ \A w \in {vals[j] : j \in 1..n} : 2 * atMost(w) >= n => v <= w
        upper == CHOOSE v \in {vals[j] : j \in 1..n} :
                    /\ 2 * atLeast(v) >= n
                    /\ \A w \in {vals[j] : j \in 1..n} : 2 * atLeast(w) >= n => v >= w
    IN lower + upper

\* Both cells hold a value and the median of the first is strictly smaller.
MedianStrictlyLess(department, left1, salary1, left2, salary2) ==
    /\ HoursOf(department, left1, salary1) # <<>>
    /\ HoursOf(department, left2, salary2) # <<>>
    /\ TwiceMedian(HoursOf(department, left1, salary1))
         < TwiceMedian(HoursOf(department, left2, salary2))

DepartmentsToKeep ==
    {d \in {Unified.rows[i].Department : i \in 1..Len(Unified.rows)} :
        \/ MedianStrictlyLess(d, 0, "high", 0, "medium")
        \/ MedianStrictlyLess(d, 1, "low", 1, "high")}

FourPairsOccur ==
    \A pair \in {<<0, "high">>, <<0, "medium">>, <<1, "low">>, <<1, "high">>} :
        \E i \in 1..Len(Unified.rows) :
            Unified.rows[i].left = pair[1] /\ Unified.rows[i].salary = pair[2]

ScoresOf(tenure, flag) ==
    Column(SelectSeq(Unified.rows, LAMBDA r : /\ r.time_spend_company = tenure
                                              /\ r.promotion_last_5years = flag),
           "last_evaluation")

\* The mean of a non-empty list of scores rounded to a whole number of
\* hundredths, an exact half going to the even neighbour.
RoundedMean(vals) ==
    LET p == Sum(vals)
        q == Len(vals)
        dist(r) == IF r * q >= p THEN r * q - p ELSE p - r * q
    IN CHOOSE r \in 0..(p + 1) :
         \/ 2 * dist(r) < q
         \/ 2 * dist(r) = q /\ r % 2 = 0

Tenures == {Unified.rows[i].time_spend_company : i \in 1..Len(Unified.rows)}

BothFlagsOccur ==
    \A flag \in {0, 1} :
        \E i \in 1..Len(Unified.rows) : Unified.rows[i].promotion_last_5years = flag

RECURSIVE PickLargest(_, _)
PickLargest(picked, count) ==
    LET rest == (1..Len(Unified.rows)) \ {picked[m] : m \in 1..Len(picked)}
    IN IF count = 0 \/ rest = {} THEN picked
       ELSE LET best == CHOOSE i \in rest : \A j \in rest :
                          \/ Unified.rows[i].average_monthly_hours
                               > Unified.rows[j].average_monthly_hours
                          \/ /\ Unified.rows[i].average_monthly_hours
                                  = Unified.rows[j].average_monthly_hours
                             /\ i <= j
            IN PickLargest(Append(picked, best), count - 1)

\* C9: top_10_departments_by_hours returns the Department of the
\* min(10, row count) rows with the most average_monthly_hours, most hours
\* first, rows of equal hours in the order of the unified table.
C9_TopTenStable ==
    (pc = "returned" /\ Unified # None) =>
        /\ raised = NoException
        /\ Len(result) = IF Len(Unified.rows) < 10 THEN Len(Unified.rows) ELSE 10
        /\ LET picked == PickLargest(<<>>, 10)
           IN result = [m \in 1..Len(picked) |-> Unified.rows[picked[m]].Department]

C9_Witness ==
    /\ pc = "returned"
    /\ Len(Unified.rows) = 11
    /\ Unified.rows[1].average_monthly_hours = 150
    /\ Unified.rows[2].average_monthly_hours = 160
    /\ Unified.rows[10].average_monthly_hours = 150
    /\ Unified.rows[11].average_monthly_hours = 160
    /\ Len(result) = 10
    /\ result[1] = Unified.rows[2].Department

\* C11: generate_unified_dataset fails with a join error and returns no
\* unified table whenever office_A, office_B or hr has no rows; when all
\* three have rows it returns a table, even one without rows.
C11_EmptyInputRejected ==
    pc = "prepared" =>
        IF \/ project_dataframes.a_office_data.rows = <<>>
           \/ project_dataframes.b_office_data.rows = <<>>
           \/ project_dataframes.hr_data.rows = <<>>
        THEN raised = "JoinError" /\ Unified = None
        ELSE raised = NoException /\ Unified # None

====
